---- MODULE Spec2Model ----
(***************************************************************************)
(* The parallel chunked alignment pipeline of pbmm2                        *)
(* (src/src/AlignWorkflow.cpp): AlignWorkflow::Runner batches the input    *)
(* records and hands the batches to a Parallel::WorkQueue, whose worker    *)
(* threads run the alignment + filter transform; WriterThread drains the   *)
(* results through WriteRecords, which writes the output and accumulates   *)
(* the Summary.                                                            *)
(*                                                                         *)
(* Parallel::WorkQueue (pbcopper) and MM2Helper::Align are not part of the *)
(* source files; they are modelled from the specification's sections 4.1,  *)
(* 4.3 and 4.5.  Doubles are modelled as exact rationals.                  *)
(***************************************************************************)
EXTENDS Integers, Sequences, FiniteSets, TLC

(* ------------------------------ bounds -------------------------------- *)

\* Largest number of records the input cursor yields.
MaxRecords == 4

\* Batch capacity.  The source fixes it at 100 (line 301); the model scales
\* it down so that full, short and several batches all occur.
chunkSize == 2

\* Largest configured worker count (settings.NumThreads).
MaxThreads == 2

\* Queue capacity per worker thread (the "small multiple of worker count").
QueueMul == 2

\* settings.MinAlignmentLength
MinAlignmentLength == 40

\* settings.MinAccuracy, in percent
MinAccuracyPct == 75

(* --------------------------- records ---------------------------------- *)

\* A default-constructed BAM::BamRecord: a slot of the batch vector the
\* input cursor has not filled.  Read ids are 1, 2, ...
Blank == 0

\* The candidate alignments the aligner may produce for a read.
Kinds ==
    << [start |-> 0,  end |-> 100, del |-> 0,  ins |-> 0,  mis |-> 0],
       [start |-> 10, end |-> 60,  del |-> 2,  ins |-> 2,  mis |-> 1],
       [start |-> 5,  end |-> 5,   del |-> 0,  ins |-> 0,  mis |-> 0],
       [start |-> 0,  end |-> 30,  del |-> 0,  ins |-> 0,  mis |-> 0],
       [start |-> 0,  end |-> 100, del |-> 20, ins |-> 10, mis |-> 10],
       [start |-> 20, end |-> 120, del |-> 3,  ins |-> 3,  mis |-> 4] >>

VARIABLES
    nrec,            \* number of records the input cursor yields (R)
    offset,          \* which candidate alignment the first read gets
    NumThreads,      \* settings.NumThreads
    fatal,           \* id of the read whose alignment raises (0: none)
    pos,             \* records the cursor has yielded so far
    pc,              \* position of the main thread in Runner
    i,               \* int32_t i, the slot index of the batching loop
    records,         \* the batch vector being filled
    head,            \* work queue: batches submitted, not yet taken
    finalized,       \* Finalize() was called on the queue
    wpc,             \* per worker: "idle", "busy" or "exited"
    wbatch,          \* per worker: the batch it is transforming
    tail,            \* results queue: results not yet drained by the sink
    exc,             \* a transform raised a fatal error
    wr_pc,           \* writer thread: "consume" or "exited"
    s,               \* Summary s of WriterThread
    alignedRecords,  \* int64_t alignedRecords of WriterThread
    out,             \* the records written to the BamWriter, in order
    mean,            \* the mean concordance WriterThread logged
    joined,          \* writer.join() has returned
    result,          \* what Runner handed to its caller
    submitted,       \* history: every batch passed to ProduceWith
    consumed,        \* history: results ConsumeWith handed to WriteRecords
    finalizeCalls,   \* history: calls of queue.Finalize()
    taken            \* history: the results handed to WriteRecords, in order

vars == << nrec, offset, NumThreads, fatal, pos, pc, i, records, head,
           finalized, wpc, wbatch, tail, exc, wr_pc, s, alignedRecords,
           out, mean, joined, result, submitted, consumed, finalizeCalls,
           taken >>

(* ----------------------- rational arithmetic -------------------------- *)

Abs(x) == IF x < 0 THEN -x ELSE x

GCD(a, b) ==
    LET gcd[x \in Nat, y \in Nat] == IF y = 0 THEN x ELSE gcd[y, x % y]
    IN  gcd[a, b]

\* A double as a reduced fraction; d = 0 stands for a non-finite value
\* (the result of a division by zero).
Rat(n, d) ==
    IF d = 0 THEN [n |-> 0, d |-> 0]
    ELSE LET g  == GCD(Abs(n), Abs(d))
             sg == IF d < 0 THEN -1 ELSE 1
         IN  [n |-> sg * (n \div g), d |-> sg * (d \div g)]

RatAdd(a, b) ==
    IF a.d = 0 \/ b.d = 0 THEN Rat(0, 0)
    ELSE Rat(a.n * b.d + b.n * a.d, a.d * b.d)

\* std::round of the fraction a / b, b > 0: halves round away from zero.
Round(a, b) ==
    IF a >= 0 THEN (2 * a + b) \div (2 * b)
    ELSE -((2 * (-a) + b) \div (2 * b))

(* ------------------------- filter, Align ------------------------------ *)

Span(aln) == aln.end - aln.start

NErr(aln) == aln.del + aln.ins + aln.mis

\* The mutation: the accuracy check is missing.
filter_NoAccuracy(aln) ==
    ~(Span(aln) <= 0 \/ Span(aln) < MinAlignmentLength)

\* const FilterFunc filter (lines 263-269).
\* 1.0 - 1.0 * nErr / span < MinAccuracy, for span > 0, is
\* 100 * (span - nErr) < MinAccuracyPct * span.
filter(aln) ==
    LET span == Span(aln)
        nErr == NErr(aln)
    IN  IF span <= 0 \/ span < MinAlignmentLength THEN FALSE
        ELSE IF 100 * (span - nErr) < MinAccuracyPct * span THEN FALSE
        ELSE TRUE

\* The candidate alignment of read id.
AlnOf(id) ==
    LET k == Kinds[((id - 1 + offset) % Len(Kinds)) + 1]
    IN  [id |-> id, start |-> k.start, end |-> k.end,
         del |-> k.del, ins |-> k.ins, mis |-> k.mis]

\* MM2Helper::Align(recs, filter): the surviving alignments of the batch's
\* records, in the batch's order.  An unfilled record has no sequence and
\* so no alignment.
RECURSIVE Align(_)
Align(recs) ==
    IF recs = << >> THEN << >>
    ELSE LET r == Head(recs)
         IN  IF r # Blank /\ filter(AlnOf(r))
             THEN << AlnOf(r) >> \o Align(Tail(recs))
             ELSE Align(Tail(recs))

\* RecordsType, a std::unique_ptr to a vector of records: the results the
\* transform may hand on for a batch.  A result without surviving
\* alignments is an empty vector or absent (a null pointer).
AlignResults(recs) ==
    IF Align(recs) = << >>
    THEN {[null |-> FALSE, recs |-> << >>], [null |-> TRUE, recs |-> << >>]}
    ELSE {[null |-> FALSE, recs |-> Align(recs)]}

\* Whether aligning the batch raises the fatal error.
Raises(recs) == fatal # 0 /\ \E k \in 1..Len(recs) : recs[k] = fatal

(* --------------------------- the writer ------------------------------- *)

\* The largest int32_t, the type of Summary::NumAlns (line 38).
Int32Max == 2147483647

\* ++ on an int32_t: past Int32Max the count wraps.
Inc32(x) == IF x = Int32Max THEN (-Int32Max) - 1 ELSE x + 1

\* The mutation: the progress counter is not incremented.
WriteOne_NoProgress(st, aln) ==
    LET span == Span(aln)
        nErr == NErr(aln)
    IN  [s |-> [NumAlns    |-> Inc32(st.s.NumAlns),
                Bases      |-> st.s.Bases + span,
                Similarity |-> RatAdd(st.s.Similarity, Rat(span - nErr, span))],
         alignedRecords |-> st.alignedRecords,
         out |-> Append(st.out, aln)]

\* The mutation: nErr / span is an integer division.
WriteOne_IntDiv(st, aln) ==
    LET span == Span(aln)
        nErr == NErr(aln)
    IN  [s |-> [NumAlns    |-> Inc32(st.s.NumAlns),
                Bases      |-> st.s.Bases + span,
                Similarity |-> RatAdd(st.s.Similarity,
                                      Rat(1 - (nErr \div span), 1))],
         alignedRecords |-> st.alignedRecords + 1,
         out |-> Append(st.out, aln)]

\* The body of the loop of WriteRecords for one alignment (lines 47-55),
\* on st = [s, alignedRecords, out].
WriteOne(st, aln) ==
    LET span == Span(aln)
        nErr == NErr(aln)
    IN  [s |-> [NumAlns    |-> Inc32(st.s.NumAlns),
                Bases      |-> st.s.Bases + span,
                Similarity |-> RatAdd(st.s.Similarity, Rat(span - nErr, span))],
         alignedRecords |-> st.alignedRecords + 1,
         out |-> Append(st.out, aln)]

\* The mutation: the records of a result are written last to first.
RECURSIVE WriteAll_Reversed(_, _)
WriteAll_Reversed(st, results) ==
    IF results = << >> THEN st
    ELSE WriteOne(WriteAll_Reversed(st, Tail(results)), Head(results))

\* for (const auto& aln : *results) (lines 46-56).
RECURSIVE WriteAll(_, _)
WriteAll(st, results) ==
    IF results = << >> THEN st
    ELSE WriteAll(WriteOne(st, Head(results)), Tail(results))

\* WriteRecords(out, s, alignedRecords, results) (lines 43-57).
WriteRecords(st, results) ==
    IF results.null THEN st ELSE WriteAll(st, results.recs)

\* std::round(1000.0 * s.Similarity / s.NumAlns) / 10.0 (line 68), in
\* tenths of a percent; 0.0 / 0 is NaN.
MeanConcordance(sm) ==
    IF sm.NumAlns = 0 \/ sm.Similarity.d = 0
    THEN [nan |-> TRUE, tenths |-> 0]
    ELSE [nan |-> FALSE,
          tenths |-> Round(1000 * sm.Similarity.n, sm.Similarity.d * sm.NumAlns)]

(* ---------------------------- the queue ------------------------------- *)

Workers == 1..NumThreads

\* Capacity of each queue stage of WorkQueue(settings.NumThreads).
Capacity == QueueMul * NumThreads

\* The process has not been aborted by std::terminate.
alive == pc # "terminated"

\* The results path is finalized once every worker has exited.
TailFinalized == \A w \in Workers : wpc[w] = "exited"

\* The mutation: Submit never blocks.
CanSubmit_Unbounded == TRUE

\* Submit blocks the caller while the queue is at capacity.
CanSubmit == Len(head) < Capacity

\* The sink's TakeNext reports "no more work": the results queue is
\* finalized and empty.
NoMoreWork == tail = << >> /\ TailFinalized

(* ------------------------------ Init ---------------------------------- *)

\* The state at line 300: the queue is constructed (its workers idle), the
\* writer thread is started, the first batch vector is allocated.
Init ==
    /\ nrec \in 0..MaxRecords
    /\ offset \in 0..(Len(Kinds) - 1)
    /\ NumThreads \in 1..MaxThreads
    /\ fatal \in 0..nrec
    /\ pos = 0
    /\ pc = "loop"
    /\ i = 0
    /\ records = [k \in 1..chunkSize |-> Blank]
    /\ head = << >>
    /\ finalized = FALSE
    /\ wpc = [w \in 1..NumThreads |-> "idle"]
    /\ wbatch = [w \in 1..NumThreads |-> << >>]
    /\ tail = << >>
    /\ exc = FALSE
    /\ wr_pc = "consume"
    /\ s = [NumAlns |-> 0, Bases |-> 0, Similarity |-> Rat(0, 1)]
    /\ alignedRecords = 0
    /\ out = << >>
    /\ mean = [logged |-> FALSE, nan |-> FALSE, tenths |-> 0]
    /\ joined = FALSE
    /\ result = "none"
    /\ submitted = << >>
    /\ consumed = 0
    /\ finalizeCalls = 0
    /\ taken = << >>

(* ------------------------- the main thread ---------------------------- *)

\* while (qryRdr->GetNext((*records)[i++])) { if (i >= chunkSize) ...
\* (lines 308-309): the slot is records[i], i is incremented before the
\* call, and the call fills the slot only when a record is left.
GetNext ==
    /\ alive /\ pc = "loop"
    /\ i' = i + 1
    /\ IF pos < nrec
       THEN /\ records' = [records EXCEPT ![i + 1] = pos + 1]
            /\ pos' = pos + 1
            /\ pc' = IF i + 1 >= chunkSize THEN "produce" ELSE "loop"
       ELSE /\ pc' = "tail"
            /\ UNCHANGED << records, pos >>
    /\ UNCHANGED << finalizeCalls, taken, nrec, offset, NumThreads, fatal, head, finalized, wpc,
                    wbatch, tail, exc, wr_pc, s, alignedRecords, out, mean,
                    joined, result, submitted, consumed >>

\* The mutation: i is not reset after a full batch is handed on.
ProduceFull_NoReset ==
    /\ alive /\ pc = "produce"
    /\ ~exc
    /\ CanSubmit
    /\ head' = Append(head, records)
    /\ submitted' = Append(submitted, records)
    /\ records' = [k \in 1..chunkSize |-> Blank]
    /\ pc' = "loop"
    /\ UNCHANGED << finalizeCalls, taken, nrec, offset, NumThreads, fatal,
                    pos, i, finalized, wpc, wbatch, tail, exc, wr_pc, s,
                    alignedRecords, out, mean, joined, result, consumed >>

\* The mutation: the batch is put at the front of the queue.
ProduceFull_Front ==
    /\ alive /\ pc = "produce"
    /\ ~exc
    /\ CanSubmit
    /\ head' = << records >> \o head
    /\ submitted' = Append(submitted, records)
    /\ records' = [k \in 1..chunkSize |-> Blank]
    /\ i' = 0
    /\ pc' = "loop"
    /\ UNCHANGED << finalizeCalls, taken, nrec, offset, NumThreads, fatal,
                    pos, finalized, wpc, wbatch, tail, exc, wr_pc, s,
                    alignedRecords, out, mean, joined, result, consumed >>

\* queue.ProduceWith(Align, std::move(records)); records = new vector;
\* i = 0 (lines 310-312).  ProduceWith blocks while the queue is full.
ProduceFull ==
    /\ alive /\ pc = "produce"
    /\ ~exc
    /\ CanSubmit
    /\ head' = Append(head, records)
    /\ submitted' = Append(submitted, records)
    /\ records' = [k \in 1..chunkSize |-> Blank]
    /\ i' = 0
    /\ pc' = "loop"
    /\ UNCHANGED << finalizeCalls, taken, nrec, offset, NumThreads, fatal, pos, finalized, wpc,
                    wbatch, tail, exc, wr_pc, s, alignedRecords, out, mean,
                    joined, result, consumed >>

\* The mutation: queue.Finalize() is also called before the terminal
\* records are submitted.
TerminalRecords_Finalizes ==
    /\ alive /\ pc = "tail"
    /\ finalized' = TRUE
    /\ finalizeCalls' = finalizeCalls + 1
    /\ IF i > 0
       THEN /\ records' = SubSeq(records, 1, i)
            /\ pc' = "produce_tail"
       ELSE /\ pc' = "finalize"
            /\ UNCHANGED records
    /\ UNCHANGED << taken, nrec, offset, NumThreads, fatal, pos, i, head,
                    wpc, wbatch, tail, exc, wr_pc, s, alignedRecords, out,
                    mean, joined, result, submitted, consumed >>

\* if (i > 0) { records->resize(i); ... (lines 316-317).
TerminalRecords ==
    /\ alive /\ pc = "tail"
    /\ IF i > 0
       THEN /\ records' = SubSeq(records, 1, i)
            /\ pc' = "produce_tail"
       ELSE /\ pc' = "finalize"
            /\ UNCHANGED records
    /\ UNCHANGED << finalizeCalls, taken, nrec, offset, NumThreads, fatal, pos, i, head, finalized,
                    wpc, wbatch, tail, exc, wr_pc, s, alignedRecords, out,
                    mean, joined, result, submitted, consumed >>

\* The mutation: the main thread aligns the terminal records itself and
\* writes them with WriteRecords instead of queueing them.
ProduceTail_Writes ==
    /\ alive /\ pc = "produce_tail"
    /\ ~exc
    /\ LET st == WriteRecords([s |-> s, alignedRecords |-> alignedRecords,
                               out |-> out],
                              [null |-> FALSE, recs |-> Align(records)])
       IN  /\ s' = st.s
           /\ alignedRecords' = st.alignedRecords
           /\ out' = st.out
    /\ submitted' = Append(submitted, records)
    /\ records' = << >>
    /\ pc' = "finalize"
    /\ UNCHANGED << finalizeCalls, taken, nrec, offset, NumThreads, fatal,
                    pos, i, head, finalized, wpc, wbatch, tail, exc, wr_pc,
                    mean, joined, result, consumed >>

\* queue.ProduceWith(Align, std::move(records)) (line 318).
ProduceTail ==
    /\ alive /\ pc = "produce_tail"
    /\ ~exc
    /\ CanSubmit
    /\ head' = Append(head, records)
    /\ submitted' = Append(submitted, records)
    /\ records' = << >>
    /\ pc' = "finalize"
    /\ UNCHANGED << finalizeCalls, taken, nrec, offset, NumThreads, fatal, pos, i, finalized, wpc,
                    wbatch, tail, exc, wr_pc, s, alignedRecords, out, mean,
                    joined, result, consumed >>

\* ProduceWith raises the stored fatal error.  Runner has no handler
\* (lines 296-323): the exception leaves the block, and destroying the
\* std::thread writer (line 298), which is not joined, calls
\* std::terminate.
ProduceThrows ==
    /\ alive /\ pc \in {"produce", "produce_tail"}
    /\ exc
    /\ pc' = "terminated"
    /\ result' = "abort"
    /\ UNCHANGED << finalizeCalls, taken, nrec, offset, NumThreads, fatal, pos, i, records, head,
                    finalized, wpc, wbatch, tail, exc, wr_pc, s,
                    alignedRecords, out, mean, joined, submitted, consumed >>

\* The mutation: the call of queue.Finalize() is missing.
Finalize_Missing ==
    /\ alive /\ pc = "finalize"
    /\ pc' = "join"
    /\ UNCHANGED << finalizeCalls, taken, nrec, offset, NumThreads, fatal, pos, i, records, head,
                    finalized, wpc, wbatch, tail, exc, wr_pc, s,
                    alignedRecords, out, mean, joined, result, submitted,
                    consumed >>

\* queue.Finalize() (line 321).
Finalize ==
    /\ alive /\ pc = "finalize"
    /\ finalized' = TRUE
    /\ finalizeCalls' = finalizeCalls + 1
    /\ pc' = "join"
    /\ UNCHANGED << taken, nrec, offset, NumThreads, fatal, pos, i, records, head,
                    wpc, wbatch, tail, exc, wr_pc, s, alignedRecords, out,
                    mean, joined, result, submitted, consumed >>

\* The mutation: the writer thread is not waited for.
Join_NoWait ==
    /\ alive /\ pc = "join"
    /\ joined' = TRUE
    /\ pc' = "teardown"
    /\ UNCHANGED << finalizeCalls, taken, nrec, offset, NumThreads, fatal, pos, i, records, head,
                    finalized, wpc, wbatch, tail, exc, wr_pc, s,
                    alignedRecords, out, mean, result, submitted, consumed >>

\* writer.join() (line 322).
Join ==
    /\ alive /\ pc = "join"
    /\ wr_pc = "exited"
    /\ joined' = TRUE
    /\ pc' = "teardown"
    /\ UNCHANGED << finalizeCalls, taken, nrec, offset, NumThreads, fatal, pos, i, records, head,
                    finalized, wpc, wbatch, tail, exc, wr_pc, s,
                    alignedRecords, out, mean, result, submitted, consumed >>

\* The end of the block (line 323): the queue is destroyed, which waits
\* for its workers and surfaces a stored fatal error to the caller.
Teardown ==
    /\ alive /\ pc = "teardown"
    /\ \A w \in Workers : wpc[w] = "exited"
    /\ IF exc
       THEN pc' = "returned" /\ result' = "failure"
       ELSE pc' = "post" /\ UNCHANGED result
    /\ UNCHANGED << finalizeCalls, taken, nrec, offset, NumThreads, fatal, pos, i, records, head,
                    finalized, wpc, wbatch, tail, exc, wr_pc, s,
                    alignedRecords, out, mean, joined, submitted, consumed >>

\* Post-processing and return EXIT_SUCCESS (lines 325-333).
PostProcess ==
    /\ alive /\ pc = "post"
    /\ pc' = "returned"
    /\ result' = "EXIT_SUCCESS"
    /\ UNCHANGED << finalizeCalls, taken, nrec, offset, NumThreads, fatal, pos, i, records, head,
                    finalized, wpc, wbatch, tail, exc, wr_pc, s,
                    alignedRecords, out, mean, joined, submitted, consumed >>

(* --------------------------- the workers ------------------------------ *)

\* batch = TakeNext(); if none, exit.
TakeNext(w) ==
    /\ w \in Workers
    /\ alive /\ wpc[w] = "idle"
    /\ IF exc
       THEN wpc' = [wpc EXCEPT ![w] = "exited"] /\ UNCHANGED << head, wbatch >>
       ELSE IF head # << >>
       THEN /\ wpc' = [wpc EXCEPT ![w] = "busy"]
            /\ wbatch' = [wbatch EXCEPT ![w] = Head(head)]
            /\ head' = Tail(head)
       ELSE /\ finalized
            /\ wpc' = [wpc EXCEPT ![w] = "exited"]
            /\ UNCHANGED << head, wbatch >>
    /\ UNCHANGED << finalizeCalls, taken, nrec, offset, NumThreads, fatal, pos, pc, i, records,
                    finalized, tail, exc, wr_pc, s, alignedRecords, out,
                    mean, joined, result, submitted, consumed >>

\* result = Transform(batch); Submit(result) to the sink path, which
\* blocks while the results queue is full.
Complete(w) ==
    /\ w \in Workers
    /\ alive /\ wpc[w] = "busy"
    /\ ~Raises(wbatch[w])
    /\ Len(tail) < Capacity
    /\ \E r \in AlignResults(wbatch[w]) : tail' = Append(tail, r)
    /\ wpc' = [wpc EXCEPT ![w] = "idle"]
    /\ wbatch' = [wbatch EXCEPT ![w] = << >>]
    /\ UNCHANGED << finalizeCalls, taken, nrec, offset, NumThreads, fatal, pos, pc, i, records,
                    head, finalized, exc, wr_pc, s, alignedRecords, out,
                    mean, joined, result, submitted, consumed >>

\* The transform raises a fatal error: the queue stores it, the batch has
\* no result and the worker thread ends.
TransformFails(w) ==
    /\ w \in Workers
    /\ alive /\ wpc[w] = "busy"
    /\ Raises(wbatch[w])
    /\ exc' = TRUE
    /\ wpc' = [wpc EXCEPT ![w] = "exited"]
    /\ wbatch' = [wbatch EXCEPT ![w] = << >>]
    /\ UNCHANGED << finalizeCalls, taken, nrec, offset, NumThreads, fatal, pos, pc, i, records,
                    head, finalized, tail, wr_pc, s, alignedRecords, out,
                    mean, joined, result, submitted, consumed >>

(* ------------------------ the writer thread --------------------------- *)

\* The mutation: the loop is an if; the thread exits after one result.
Consume_Once ==
    /\ alive /\ wr_pc = "consume"
    /\ tail # << >>
    /\ LET st == WriteRecords([s |-> s, alignedRecords |-> alignedRecords,
                               out |-> out], Head(tail))
       IN  /\ s' = st.s
           /\ alignedRecords' = st.alignedRecords
           /\ out' = st.out
           /\ mean' = [logged |-> TRUE] @@ MeanConcordance(st.s)
    /\ tail' = Tail(tail)
    /\ consumed' = consumed + 1
    /\ taken' = Append(taken, Head(tail))
    /\ wr_pc' = "exited"
    /\ UNCHANGED << finalizeCalls, nrec, offset, NumThreads, fatal, pos, pc, i, records,
                    head, finalized, wpc, wbatch, exc, joined, result,
                    submitted >>

\* The mutation: an absent or empty result ends the loop.
Consume_StopsOnNull ==
    /\ alive /\ wr_pc = "consume"
    /\ tail # << >>
    /\ LET st == WriteRecords([s |-> s, alignedRecords |-> alignedRecords,
                               out |-> out], Head(tail))
       IN  /\ s' = st.s
           /\ alignedRecords' = st.alignedRecords
           /\ out' = st.out
           /\ IF Head(tail).null \/ Head(tail).recs = << >>
              THEN /\ wr_pc' = "exited"
                   /\ mean' = [logged |-> TRUE] @@ MeanConcordance(st.s)
              ELSE UNCHANGED << wr_pc, mean >>
    /\ tail' = Tail(tail)
    /\ consumed' = consumed + 1
    /\ taken' = Append(taken, Head(tail))
    /\ UNCHANGED << finalizeCalls, nrec, offset, NumThreads, fatal, pos, pc,
                    i, records, head, finalized, wpc, wbatch, exc, joined,
                    result, submitted >>

\* One pass of while (queue.ConsumeWith(WriteRecords, ...)) {} (line 63)
\* that finds a result: WriteRecords runs on it.
Consume ==
    /\ alive /\ wr_pc = "consume"
    /\ tail # << >>
    /\ LET st == WriteRecords([s |-> s, alignedRecords |-> alignedRecords,
                               out |-> out], Head(tail))
       IN  /\ s' = st.s
           /\ alignedRecords' = st.alignedRecords
           /\ out' = st.out
    /\ tail' = Tail(tail)
    /\ consumed' = consumed + 1
    /\ taken' = Append(taken, Head(tail))
    /\ UNCHANGED << finalizeCalls, nrec, offset, NumThreads, fatal, pos, pc, i, records,
                    head, finalized, wpc, wbatch, exc, wr_pc, mean, joined,
                    result, submitted >>

\* ConsumeWith reports no more work: the loop ends, the summary is logged
\* and the thread exits (lines 63-69).
WriterExit ==
    /\ alive /\ wr_pc = "consume"
    /\ NoMoreWork
    /\ mean' = [logged |-> TRUE] @@ MeanConcordance(s)
    /\ wr_pc' = "exited"
    /\ UNCHANGED << finalizeCalls, taken, nrec, offset, NumThreads, fatal, pos, pc, i, records,
                    head, finalized, wpc, wbatch, tail, exc, s,
                    alignedRecords, out, joined, result, submitted,
                    consumed >>

(* ------------------------- specifications ----------------------------- *)

Main ==
    \/ GetNext
    \/ ProduceFull
    \/ TerminalRecords
    \/ ProduceTail
    \/ ProduceThrows
    \/ Finalize
    \/ Join
    \/ Teardown
    \/ PostProcess

Worker(w) ==
    \/ TakeNext(w)
    \/ Complete(w)
    \/ TransformFails(w)

Writer ==
    \/ Consume
    \/ WriterExit

Next ==
    \/ Main
    \/ \E w \in 1..MaxThreads : Worker(w)
    \/ Writer

Spec == Init /\ [][Next]_vars

\* The scheduler runs some thread as long as one can take a step.
FairSpec == Spec /\ WF_vars(Next)

(* ------------------------------ claims -------------------------------- *)

\* The batching loop is over: the main thread is past the last ProduceWith.
BatchingDone == pc \in {"finalize", "join", "teardown", "post", "returned"}

CeilDiv(a, b) == (a + b - 1) \div b

RECURSIVE Flatten(_)
Flatten(batches) ==
    IF batches = << >> THEN << >>
    ELSE Head(batches) \o Flatten(Tail(batches))

\* How often x occurs in the sequence q.
Count(q, x) == Cardinality({k \in 1..Len(q) : q[k] = x})

\* How often read id occurs among the written records.
Written(id) == Cardinality({k \in 1..Len(out) : out[k].id = id})

\* The two filter predicates of the specification's section 4.3.
Passes(aln) ==
    /\ aln.end - aln.start > 0
    /\ aln.end - aln.start >= MinAlignmentLength
    /\ 100 * ((aln.end - aln.start) - (aln.del + aln.ins + aln.mis))
          >= MinAccuracyPct * (aln.end - aln.start)

\* C1: once the batching loop is over, exactly ceil(R/C) batches were
\* submitted, every batch but the last with C records and the last with
\* R mod C records (C when R mod C = 0), none of them empty.
C1_BatchCount ==
    BatchingDone =>
        /\ Len(submitted) = CeilDiv(nrec, chunkSize)
        /\ \A k \in 1..Len(submitted) :
              /\ Len(submitted[k]) > 0
              /\ k < Len(submitted) => Len(submitted[k]) = chunkSize
              /\ k = Len(submitted) =>
                    Len(submitted[k]) = IF nrec % chunkSize = 0 THEN chunkSize
                                        ELSE nrec % chunkSize

\* C2: once the batching loop is over, the records of the submitted
\* batches are the records the cursor yielded, each once, and no batch
\* holds a slot the cursor did not fill.
C2_RecordsPreserved ==
    BatchingDone =>
        /\ Len(Flatten(submitted)) = nrec
        /\ \A id \in 1..nrec : Count(Flatten(submitted), id) = 1
        /\ Count(Flatten(submitted), Blank) = 0

\* C3: every written record has span > 0, span >= MinAlignmentLength and
\* similarity >= MinAccuracy; a read whose alignment fails a check is
\* never written, and the summary counts the written records only.
C3_WrittenPassFilter ==
    /\ \A k \in 1..Len(out) : Passes(out[k])
    /\ \A id \in 1..nrec : ~Passes(AlnOf(id)) => Written(id) = 0
    /\ s.NumAlns = Len(out)

\* C3's case: the writer has finished, wrote a record and a read of the
\* input was rejected.
C3_Witness ==
    /\ wr_pc = "exited" /\ fatal = 0
    /\ Len(out) >= 1
    /\ \E id \in 1..nrec : ~Passes(AlnOf(id))

\* Every surviving record is in the output once, and nothing else is.
DeliveredOnce ==
    /\ \A id \in 1..nrec : Written(id) = IF Passes(AlnOf(id)) THEN 1 ELSE 0
    /\ \A k \in 1..Len(out) : out[k].id \in 1..nrec

\* Every thread has finished and Runner has returned.
Terminated ==
    /\ pc = "returned"
    /\ \A w \in Workers : wpc[w] = "exited"
    /\ wr_pc = "exited"

\* C4: with more than one worker and no failing transform, under any
\* interleaving the pipeline terminates with every surviving record
\* written exactly once, and no record is ever written twice.
C4_TerminatesDeliveredOnce ==
    /\ [](\A id \in 1..nrec : Written(id) <= 1)
    /\ (NumThreads > 1 /\ fatal = 0) ~> (Terminated /\ DeliveredOnce)

\* C4's case: two workers, the run is over and the results were written
\* in another order than their batches were submitted.
C4_Witness ==
    /\ NumThreads > 1 /\ fatal = 0
    /\ Terminated /\ DeliveredOnce
    /\ \E j, k \in 1..Len(out) : j < k /\ out[j].id > out[k].id

C6_FinalizeThenDrain ==
    /\ [][(~finalized /\ finalized') => head' = head]_vars
    /\ []((fatal = 0 /\ pc \in {"teardown", "post", "returned"}) =>
             /\ consumed = Len(submitted)
             /\ head = << >> /\ tail = << >>
             /\ wr_pc = "exited")
    /\ (fatal = 0 /\ finalized) ~>
          (wr_pc = "exited" /\ consumed = Len(submitted))

\* C6's case: Finalize was called with batches still queued, and the
\* writer has since consumed every result and exited.
C6_Witness ==
    /\ fatal = 0
    /\ wr_pc = "exited"
    /\ Len(submitted) >= 2
    /\ consumed = Len(submitted)

\* C7: Runner starts post-processing and returns only after the writer
\* thread has exited and was joined.
C7_ReturnAfterJoin ==
    pc \in {"teardown", "post", "returned"} => (joined /\ wr_pc = "exited")

\* C7's case: post-processing starts after a run that wrote records.
C7_Witness == pc = "post" /\ joined /\ Len(out) > 0

\* C8: a run that wrote no alignment logs no undefined mean concordance.
C8_NoAlignmentsReported ==
    (mean.logged /\ s.NumAlns = 0) => ~mean.nan

\* C9: after a fatal transform error the process is not aborted, Runner
\* returns the failure with every thread joined, and no record of the
\* failing batch is written.
C9_FatalErrorHandled ==
    exc =>
        /\ pc # "terminated"
        /\ pc = "returned" =>
              /\ result = "failure"
              /\ joined
              /\ \A w \in Workers : wpc[w] = "exited"
        /\ \A k \in 1..Len(submitted) :
              Raises(submitted[k]) =>
                 \A j \in 1..Len(submitted[k]) : Written(submitted[k][j]) = 0

\* The sum of the spans of the alignments of q.
RECURSIVE SumSpan(_)
SumSpan(q) ==
    IF q = << >> THEN 0
    ELSE (Head(q).end - Head(q).start) + SumSpan(Tail(q))

\* The least common multiple of the spans of the alignments of q.
RECURSIVE LcmSpan(_)
LcmSpan(q) ==
    IF q = << >> THEN 1
    ELSE LET span == Head(q).end - Head(q).start
             rest == LcmSpan(Tail(q))
         IN  (span * rest) \div GCD(span, rest)

\* The sum over q of 1 - errors/span, as a numerator over den, a common
\* multiple of the spans.
RECURSIVE SumSimNum(_, _)
SumSimNum(q, den) ==
    IF q = << >> THEN 0
    ELSE LET a == Head(q)
             span == a.end - a.start
         IN  (span - (a.del + a.ins + a.mis)) * (den \div span)
                + SumSimNum(Tail(q), den)

\* C10: the summary holds the number of written records, the sum of
\* their spans and the sum of their similarities, and the logged mean of
\* a non-empty output is round(1000 * sum / count) / 10.
C10_SummaryExact ==
    LET den == LcmSpan(out)
        num == SumSimNum(out, den)
        cnt == Len(out)
    IN  /\ s.NumAlns = cnt
        /\ s.Bases = SumSpan(out)
        /\ s.Similarity.d # 0
        /\ s.Similarity.n * den = num * s.Similarity.d
        /\ (mean.logged /\ cnt > 0) =>
              /\ ~mean.nan
              /\ 2 * mean.tenths * den * cnt <= 2000 * num + den * cnt
              /\ 2000 * num + den * cnt < 2 * (mean.tenths + 1) * den * cnt

\* C10's case: the two alignments (span 100, errors 0) and (span 50,
\* errors 5) were written: count 2, bases 150, mean 95.0%.
C10_Witness ==
    /\ mean.logged
    /\ Len(out) = 2
    /\ \E j, k \in 1..2 :
          /\ out[j].end - out[j].start = 100
          /\ out[j].del + out[j].ins + out[j].mis = 0
          /\ out[k].end - out[k].start = 50
          /\ out[k].del + out[k].ins + out[k].mis = 5
    /\ s.NumAlns = 2
    /\ s.Bases = 150
    /\ mean.tenths = 950

\* The ids of the records of batch that survive the filter, in order.
SurvivorIds(batch) ==
    SelectSeq(batch, LAMBDA r : r # Blank /\ Passes(AlnOf(r)))

\* The ids of the records of a result, in order.
ResultIds(res) == [j \in 1..Len(res.recs) |-> res.recs[j].id]

\* C11: the batches wait in the work queue in the order they were
\* submitted, and with one worker the k-th result the sink writes is the
\* result of the k-th submitted batch, so the output is in input order.
C11_OneWorkerOrder ==
    /\ Len(head) <= Len(submitted)
    /\ head = SubSeq(submitted, Len(submitted) - Len(head) + 1, Len(submitted))
    /\ NumThreads = 1 =>
          /\ Len(taken) <= Len(submitted)
          /\ \A k \in 1..Len(taken) :
                ResultIds(taken[k]) = SurvivorIds(submitted[k])
          /\ \A j, k \in 1..Len(out) : j < k => out[j].id < out[k].id

\* C11's case: one worker, and the sink wrote the non-empty results of
\* the first two batches.
C11_Witness ==
    /\ NumThreads = 1 /\ fatal = 0
    /\ wr_pc = "exited"
    /\ Len(taken) >= 2
    /\ taken[1].recs # << >> /\ taken[2].recs # << >>

Phase == IF joined THEN 3 ELSE IF finalized THEN 2 ELSE 1

\* C13: the driver moves Running -> Draining -> Stopped and never back;
\* it finalizes the batch queue only when the input is exhausted, the
\* writer ends only when every worker has exited, and the writer is
\* joined only after that, with the batch queue finalized.
C13_ShutdownOrder ==
    /\ [][Phase' >= Phase /\ Phase' <= Phase + 1]_vars
    /\ [][(finalized' /\ ~finalized) => (pos = nrec /\ pc = "finalize")]_vars
    /\ [](wr_pc = "exited" => \A w \in Workers : wpc[w] = "exited")
    /\ [][(joined' /\ ~joined) =>
             /\ finalized
             /\ wr_pc = "exited"
             /\ \A w \in Workers : wpc[w] = "exited"]_vars
    /\ [](joined => \A w \in Workers : wpc[w] = "exited")

\* C13's case: two workers handled several batches and the writer has
\* just been joined.
C13_Witness ==
    /\ NumThreads = 2 /\ fatal = 0
    /\ pc = "teardown" /\ joined
    /\ Len(taken) >= 2

\* The records of the results of q, one result after the other.
RECURSIVE FlattenResults(_)
FlattenResults(q) ==
    IF q = << >> THEN << >>
    ELSE Head(q).recs \o FlattenResults(Tail(q))

\* C14: the output is the results the sink took, one after the other,
\* each with its records in the result's order; a step that writes
\* appends exactly the records of one result.
C14_ResultsContiguous ==
    /\ [](out = FlattenResults(taken))
    /\ [][out' # out =>
             /\ tail # << >>
             /\ out' = out \o Head(tail).recs]_vars

\* C14's case: two workers, and the sink wrote a result of two records
\* and, before or after it, another result with records.
C14_Witness ==
    /\ NumThreads = 2 /\ fatal = 0
    /\ wr_pc = "exited"
    /\ \E j, k \in 1..Len(taken) :
          j # k /\ Len(taken[j].recs) >= 2 /\ Len(taken[k].recs) >= 1

\* C15: a step that changes the output, the summary, the progress
\* counter or the logged mean is a step of the running writer thread: it
\* changes no variable of the main thread or of a worker.
C15_WriterOwnsOutput ==
    [][<< out, s, alignedRecords, mean >>' # << out, s, alignedRecords, mean >>
          => /\ wr_pc = "consume"
             /\ UNCHANGED << pc, i, records, pos, head, finalized, wpc,
                             wbatch, exc, joined, result, submitted,
                             finalizeCalls >>]_vars

\* C15's case: the writer has written records while the main thread is
\* still batching and a worker is transforming a batch.
C15_Witness ==
    /\ pc = "loop"
    /\ Len(out) > 0
    /\ \E w \in Workers : wpc[w] = "busy"

\* C16: whenever GetNext is about to be called, 0 <= i < chunkSize and
\* the batch vector has chunkSize slots; the vector holds the i records
\* read since the last hand-over and blank slots, none of them a record
\* of a batch already handed to the queue.
C16_SlotInRange ==
    pc = "loop" =>
        /\ 0 <= i /\ i < chunkSize
        /\ Len(records) = chunkSize
        /\ \A k \in 1..chunkSize :
              records[k] = IF k <= i THEN pos - i + k ELSE Blank
        /\ \A k \in 1..chunkSize :
              records[k] # Blank => Count(Flatten(submitted), records[k]) = 0

\* C16's case: a batch was handed on and the last slot of the next
\* vector is about to be filled.
C16_Witness ==
    /\ pc = "loop"
    /\ Len(submitted) >= 1
    /\ i = chunkSize - 1
    /\ pos < nrec

C18_EmptyResultSkipped ==
    /\ [][(consumed' # consumed /\ tail # << >>
              /\ (Head(tail).null \/ Head(tail).recs = << >>))
             => /\ out' = out
                /\ s' = s
                /\ alignedRecords' = alignedRecords
                /\ wr_pc' = "consume"]_vars
    /\ [][(wr_pc = "consume" /\ wr_pc' = "exited")
             => /\ tail = << >>
                /\ \A w \in Workers : wpc[w] = "exited"
                /\ consumed' = consumed]_vars

\* C18's case: the sink took an absent result and an empty one, and
\* after the absent one went on to write the records of a later result.
C18_Witness ==
    /\ wr_pc = "exited"
    /\ \E j, k \in 1..Len(taken) :
          j < k /\ taken[j].null /\ taken[k].recs # << >>
    /\ \E k \in 1..Len(taken) : ~taken[k].null /\ taken[k].recs = << >>

====
